---- MODULE Spec2Model ----
(***************************************************************************)
(* Multi-page table reconciliation of server/python/table_postprocess.py:  *)
(* stitch_multipage_tables and the cleaning functions it calls.            *)
(*                                                                         *)
(* A DataFrame is a record [cols, rows, src]: cols is the sequence of      *)
(* column labels, rows the sequence of rows (each a sequence of cells, one *)
(* per column) and src a history field: src[i] is the position row i had   *)
(* in the concatenation of the input grids (pandas drops that row label in *)
(* reset_index; it is kept here only to state order and provenance).       *)
(* A cell is a string, or NaN for pandas' float missing value.             *)
(***************************************************************************)
EXTENDS Integers, Sequences, FiniteSets, TLC

\* ------------------------------------------------------------------------
\* Bounds of the explored inputs
\* ------------------------------------------------------------------------
\* the size of an input. For raw, each entry counts 1, plus its labels and its
\* cells; for the rows of an OCR payload, each row counts 1, plus its cells
MaxSize == 6

\* the highest page index of a mapping from page index to grid
MaxPage == 2

\* the rows after the visit row in a table given to the analytics
MaxDataRows == 2

\* the uploads a run of the API server receives
MaxUploads == 2

\* ------------------------------------------------------------------------
\* Strings
\* ------------------------------------------------------------------------
\* the float missing value that reindex puts in a column a grid lacks
NaN == "<NaN>"

\* Python's None: a JSON null in an OCR row, a field of a record not set
PyNone == "<None>"

\* str(x) / astype(str): the missing value prints as "nan"
Str(v) == IF v = NaN THEN "nan" ELSE v

\* str.strip() on the strings of the model
Strip(s) ==
    CASE s = " " -> ""
      [] s = "A " -> "A"
      [] s = " a" -> "a"
      [] s = "x " -> "x"
      [] s = " nan" -> "nan"
      [] OTHER -> s

\* str.lower() on the strings of the model
Lower(s) ==
    CASE s = "A" -> "a"
      [] s = "A " -> "a "
      [] s = "B" -> "b"
      [] s = "C" -> "c"
      [] s = "X" -> "x"
      [] s = "Y" -> "y"
      [] s = "Visit" -> "visit"
      [] s = "V1" -> "v1"
      [] s = "V2" -> "v2"
      [] s = "V3" -> "v3"
      [] s = "Period" -> "period"
      [] s = "Maintenance" -> "maintenance"
      [] s = "None" -> "none"
      [] s = "NULL" -> "null"
      [] s = "NaN" -> "nan"
      [] OTHER -> s

\* str(x).strip().lower()
Norm(v) == Lower(Strip(Str(v)))

\* the list ["None", "none", "NULL", "null", "nan", "NaN"]
NoneLike == {"None", "none", "NULL", "null", "nan", "NaN"}

\* val_str == "" or val_str.lower() in ["none", "nan", "null"]
IsHeaderBlank(s) == s = "" \/ Lower(s) \in {"none", "nan", "null"}

\* ------------------------------------------------------------------------
\* Sequences
\* ------------------------------------------------------------------------
Range(s) == {s[i] : i \in 1..Len(s)}

Unique(s) == \A i, j \in 1..Len(s) : s[i] = s[j] => i = j

\* the positions i >= from at which the flag sequence holds TRUE, in order
RECURSIVE TruePositions(_, _)
TruePositions(flags, from) ==
    IF from > Len(flags) THEN <<>>
    ELSE IF flags[from] THEN <<from>> \o TruePositions(flags, from + 1)
    ELSE TruePositions(flags, from + 1)

Pick(s, idx) == [k \in 1..Len(idx) |-> s[idx[k]]]

\* ------------------------------------------------------------------------
\* DataFrames
\* ------------------------------------------------------------------------
\* pd.DataFrame()
EmptyFrame == [cols |-> <<>>, rows |-> <<>>, src |-> <<>>]

\* df.empty: some axis has length 0
IsEmpty(df) == Len(df.cols) = 0 \/ Len(df.rows) = 0

\* pd.DataFrame(columns=df.columns)
NoRows(df) == [cols |-> df.cols, rows |-> <<>>, src |-> <<>>]

\* the rows of df at the positions idx
TakeRows(df, idx) ==
    [cols |-> df.cols, rows |-> Pick(df.rows, idx), src |-> Pick(df.src, idx)]

\* the columns of df at the positions idx
TakeCols(df, idx) ==
    [cols |-> Pick(df.cols, idx),
     rows |-> [r \in 1..Len(df.rows) |-> Pick(df.rows[r], idx)],
     src |-> df.src]

\* ------------------------------------------------------------------------
\* Filtering helpers
\* ------------------------------------------------------------------------
\* threshold=0.5 of the call in stitch_multipage_tables, as a fraction
ThresholdNum == 1
ThresholdDen == 2

\* none_count of a row: the cells whose str() is in the None-like list
NoneCount(row) == Cardinality({j \in 1..Len(row) : Str(row[j]) \in NoneLike})

\* fraction < threshold, for a row with at least one cell
RowKept(row) ==
    Len(row) # 0 /\ NoneCount(row) * ThresholdDen < ThresholdNum * Len(row)

\* mutant: the constructor refuses duplicate labels even for an empty list
FromRowsRaises_on_empty(df, idx) == ~Unique(df.cols)

\* pd.DataFrame(rows, columns=df.columns) on a list of row Series raises
\* InvalidIndexError when the row Series' index (the column labels) has
\* duplicates
FromRowsRaises(df, idx) == Len(idx) > 0 /\ ~Unique(df.cols)

KeptRows(df) == TruePositions([i \in 1..Len(df.rows) |-> RowKept(df.rows[i])], 1)

remove_rows_with_many_nones_raises(df) ==
    ~IsEmpty(df) /\ FromRowsRaises(df, KeptRows(df))

remove_rows_with_many_nones(df) ==
    IF IsEmpty(df) THEN df
    ELSE IF KeptRows(df) # <<>> THEN TakeRows(df, KeptRows(df))
    ELSE NoRows(df)

\* tmp = df.copy().applymap(lambda x: str(x).strip().lower())
Normalized(df) ==
    [cols |-> df.cols,
     rows |-> [i \in 1..Len(df.rows) |->
                  [j \in 1..Len(df.rows[i]) |-> Norm(df.rows[i][j])]],
     src |-> df.src]

\* header_values = [str(c).strip().lower() for c in tmp.columns]
HeaderValues(df) == [j \in 1..Len(df.cols) |-> Norm(df.cols[j])]

\* the rows of tmp that differ from header_values
NonHeaderRows(df) ==
    TruePositions([i \in 1..Len(df.rows) |->
                      Normalized(df).rows[i] # HeaderValues(df)], 1)

\* drop_duplicates(keep="first"): a row goes when an earlier row equals it
drop_duplicates(df) ==
    TakeRows(df, TruePositions([i \in 1..Len(df.rows) |->
                 \A k \in 1..(i - 1) : df.rows[k] # df.rows[i]], 1))

remove_repeated_header_rows_raises(df) ==
    ~IsEmpty(df) /\ FromRowsRaises(df, NonHeaderRows(df))

\* cleaned_rows holds rows of tmp, the normalized copy
remove_repeated_header_rows(df) ==
    IF IsEmpty(df) THEN df
    ELSE IF NonHeaderRows(df) = <<>> THEN NoRows(df)
    ELSE drop_duplicates(TakeRows(Normalized(df), NonHeaderRows(df)))

\* ------------------------------------------------------------------------
\* Header helpers
\* ------------------------------------------------------------------------
\* the loop over header: new_header after the first n cells
RECURSIVE NewHeader(_, _)
NewHeader(header, n) ==
    IF n = 0 THEN [cells |-> <<>>, last_value |-> ""]
    ELSE LET before == NewHeader(header, n - 1)
             val_str == Strip(Str(header[n]))
         IN IF IsHeaderBlank(val_str)
            THEN [cells |-> Append(before.cells, before.last_value),
                  last_value |-> before.last_value]
            ELSE [cells |-> Append(before.cells, val_str),
                  last_value |-> val_str]

\* mutant: a blank cell takes the first value of the row, not the nearest
fill_empty_header_with_first(df) ==
    IF IsEmpty(df) THEN df
    ELSE LET filled == NewHeader(df.rows[1], Len(df.rows[1])).cells
             first == CHOOSE k \in 1..Len(filled) :
                          filled[k] # "" /\ \A i \in 1..(k - 1) : filled[i] = ""
         IN [df EXCEPT !.rows[1] =
                [j \in 1..Len(filled) |->
                    IF IsHeaderBlank(Strip(Str(df.rows[1][j]))) /\ filled[j] # ""
                    THEN filled[first]
                    ELSE filled[j]]]

fill_empty_header_with_previous(df) ==
    IF IsEmpty(df) THEN df
    ELSE [df EXCEPT !.rows[1] = NewHeader(df.rows[1], Len(df.rows[1])).cells]

\* ------------------------------------------------------------------------
\* Normalization + cleanup
\* ------------------------------------------------------------------------
\* df.columns = [str(c).strip() for c in df.columns]
StrippedCols(df) == [df EXCEPT !.cols = [j \in 1..Len(df.cols) |-> Strip(df.cols[j])]]

\* merged.where(merged.str.strip() != "", curr), both sides astype(str)
MergedCell(merged, curr) ==
    IF Strip(Str(merged)) # "" THEN Str(merged) ELSE Str(curr)

\* seen[key]: the index that key got in new_cols
SeenIndex(new_cols, key) ==
    CHOOSE k \in 1..Len(new_cols) : Lower(new_cols[k]) = key

\* column prev_idx of the frame, counted from 1: df.iloc[:, prev_idx] takes
\* the index in new_cols as a position among all the columns of df
PrevIdx(new_cols, key) == SeenIndex(new_cols, key)

\* the loop over df.columns, after its first n columns: the cells of df, the
\* list new_cols and the positions in df of the labels of new_cols
RECURSIVE MergeLoop(_, _)
MergeLoop(df, n) ==
    IF n = 0 THEN [rows |-> df.rows, new_cols |-> <<>>, at |-> <<>>]
    ELSE LET st == MergeLoop(df, n - 1)
             c == df.cols[n]
             key == Lower(c)
         IN IF \E k \in 1..Len(st.new_cols) : Lower(st.new_cols[k]) = key
            THEN LET prev_idx == PrevIdx(st.new_cols, key)
                 IN [st EXCEPT !.rows =
                        [r \in 1..Len(st.rows) |->
                            [st.rows[r] EXCEPT
                                ![prev_idx] = MergedCell(st.rows[r][prev_idx],
                                                         st.rows[r][n])]]]
            ELSE [rows |-> st.rows,
                  new_cols |-> Append(st.new_cols, c),
                  at |-> Append(st.at, n)]

\* df[c] is a DataFrame when the label c occurs twice, and Series.where
\* raises NotImplementedError on it; this happens at a column whose key is
\* already in seen
normalize_headers_with_subcolumns_raises(df) ==
    /\ ~IsEmpty(df)
    /\ LET cols == StrippedCols(df).cols
       IN \E j \in 1..Len(cols) :
             /\ \E i \in 1..(j - 1) : Lower(cols[i]) = Lower(cols[j])
             /\ \E i \in 1..Len(cols) : i # j /\ cols[i] = cols[j]

\* mutant: the labels are trimmed but no duplicate column is merged away
normalize_keep_duplicates(df) == IF IsEmpty(df) THEN df ELSE StrippedCols(df)

normalize_headers_with_subcolumns(df) ==
    IF IsEmpty(df) THEN df
    ELSE LET stripped == StrippedCols(df)
             st == MergeLoop(stripped, Len(stripped.cols))
         IN TakeCols([stripped EXCEPT !.rows = st.rows], st.at)

\* mutant: "nan" is missing from the replacement dict
ReplaceNulls_without_nan(v) == IF v \in NoneLike \ {"nan"} THEN "" ELSE v

\* df.replace({"None": "", "none": "", "null": "", "NULL": "", "NaN": "", "nan": ""})
ReplaceNulls(v) == IF v \in NoneLike THEN "" ELSE v

\* mutant: one blank cell is enough for the column to count as blank
ColumnBlank_some(df, j) == \E r \in 1..Len(df.rows) : Strip(Str(df.rows[r][j])) = ""

\* col.astype(str).str.strip().eq("").all()
ColumnBlank(df, j) == \A r \in 1..Len(df.rows) : Strip(Str(df.rows[r][j])) = ""

drop_empty_cols_and_fix_nulls(df) ==
    IF IsEmpty(df) THEN df
    ELSE LET replaced == [df EXCEPT !.rows =
                             [r \in 1..Len(df.rows) |->
                                 [j \in 1..Len(df.rows[r]) |-> ReplaceNulls(df.rows[r][j])]]]
         IN TakeCols(replaced,
                     TruePositions([j \in 1..Len(df.cols) |-> ~ColumnBlank(replaced, j)], 1))

\* ------------------------------------------------------------------------
\* Stitching pipeline
\* ------------------------------------------------------------------------
\* the rows of the entries before entry k, when the entries are put one after
\* the other
RECURSIVE RowsBefore(_, _)
RowsBefore(items, k) ==
    IF k = 1 THEN 0 ELSE RowsBefore(items, k - 1) + Len(items[k - 1].rows)

\* entry k of raw as a DataFrame; src numbers its rows by their position in
\* the concatenation of all the entries
AsFrame(items, k) ==
    [cols |-> items[k].cols,
     rows |-> items[k].rows,
     src |-> [i \in 1..Len(items[k].rows) |-> RowsBefore(items, k) + i]]

\* sorted(raw.keys()): the keys in ascending order
RECURSIVE sorted(_)
sorted(ks) ==
    IF ks = {} THEN <<>>
    ELSE LET least == CHOOSE k \in ks : \A o \in ks : k <= o
         IN <<least>> \o sorted(ks \ {least})

\* raw[k] of a mapping: keys holds the keys in insertion order, items the
\* values beside them
ValueAt(r, k) == r.items[CHOOSE i \in 1..Len(r.keys) : r.keys[i] = k]

\* mutant: the values of a mapping are taken in insertion order
Entries_as_inserted(r) == r.items

\* the entries of raw in the order the collecting loop visits them: by
\* ascending key for a mapping, as they come for a list
Entries(r) ==
    IF r.isDict
    THEN [i \in 1..Len(r.keys) |-> ValueAt(r, sorted(Range(r.keys))[i])]
    ELSE r.items

\* the entries that are DataFrames and not empty, in order
CollectFrames(items) ==
    Pick([k \in 1..Len(items) |-> AsFrame(items, k)],
         TruePositions([k \in 1..Len(items) |->
                           items[k].isdf /\ ~IsEmpty(AsFrame(items, k))], 1))

\* for c in df.columns: if c not in master_cols: master_cols.append(c)
RECURSIVE AppendMissing(_, _)
AppendMissing(master, cols) ==
    IF cols = <<>> THEN master
    ELSE AppendMissing(IF Head(cols) \in Range(master) THEN master
                       ELSE Append(master, Head(cols)),
                       Tail(cols))

\* mutant: the labels of the later frames are never added
MasterCols_first_only(frames, n) == frames[1].cols

\* master_cols after the first n frames
RECURSIVE MasterCols(_, _)
MasterCols(frames, n) ==
    IF n = 1 THEN frames[1].cols
    ELSE AppendMissing(MasterCols(frames, n - 1), frames[n].cols)

\* df.reindex(columns=master_cols) raises ValueError when the labels of df
\* have duplicates, unless they equal master_cols
reindex_raises(df, master) == df.cols # master /\ ~Unique(df.cols)

\* mutant: the columns a grid lacks are filled with ""
FillValueBlank == ""

\* the value reindex puts in a column that df lacks
FillValue == NaN

\* mutant: the cells are taken by position, not by label
reindex_by_position(df, master) ==
    [cols |-> master,
     rows |-> [r \in 1..Len(df.rows) |->
                 [k \in 1..Len(master) |->
                     IF k <= Len(df.cols) THEN df.rows[r][k] ELSE FillValue]],
     src |-> df.src]

reindex(df, master) ==
    IF df.cols = master THEN df
    ELSE [cols |-> master,
          rows |-> [r \in 1..Len(df.rows) |->
                      [k \in 1..Len(master) |->
                          IF \E j \in 1..Len(df.cols) : df.cols[j] = master[k]
                          THEN df.rows[r][CHOOSE j \in 1..Len(df.cols) : df.cols[j] = master[k]]
                          ELSE FillValue]],
          src |-> df.src]

\* pd.concat(aligned, axis=0, ignore_index=True): the rows of the first n
\* frames, grid after grid
RECURSIVE ConcatRows(_, _)
ConcatRows(frames, n) ==
    IF n = 0 THEN <<>> ELSE ConcatRows(frames, n - 1) \o frames[n].rows

RECURSIVE ConcatSrc(_, _)
ConcatSrc(frames, n) ==
    IF n = 0 THEN <<>> ELSE ConcatSrc(frames, n - 1) \o frames[n].src

\* mutant: the frames are concatenated last to first
RECURSIVE ReversedRows(_, _)
ReversedRows(frames, n) ==
    IF n = 0 THEN <<>> ELSE frames[n].rows \o ReversedRows(frames, n - 1)

RECURSIVE ReversedSrc(_, _)
ReversedSrc(frames, n) ==
    IF n = 0 THEN <<>> ELSE frames[n].src \o ReversedSrc(frames, n - 1)

concat_reversed(frames) ==
    [cols |-> frames[1].cols,
     rows |-> ReversedRows(frames, Len(frames)),
     src |-> ReversedSrc(frames, Len(frames))]

concat(frames) ==
    [cols |-> frames[1].cols,
     rows |-> ConcatRows(frames, Len(frames)),
     src |-> ConcatSrc(frames, Len(frames))]

\* ------------------------------------------------------------------------
\* Inputs
\* ------------------------------------------------------------------------
Labels == {"A", "a", "B"}

CellValues == {"", "x", "nan", "A"}

\* the grids with c columns and r rows of cells among values
GridsOf(c, r, values) ==
    {[isdf |-> TRUE, cols |-> h, rows |-> b] :
        h \in [1..c -> Labels], b \in [1..r -> [1..c -> values]]}

\* an entry of raw that is no DataFrame
NotAFrame == [isdf |-> FALSE, cols |-> <<>>, rows |-> <<>>]

\* pd.DataFrame(), the value of a page without a usable table
NoTable == [isdf |-> TRUE, cols |-> <<>>, rows |-> <<>>]

\* the page indices and the values a mapping can hold for a page
PageKeys == 0..MaxPage

PageEntries == {NotAFrame, NoTable} \cup GridsOf(1, 1, {"x"})

\* a list given as raw, and the mapping with no page yet
ListOf(items) == [isNone |-> FALSE, isDict |-> FALSE, keys |-> <<>>, items |-> items]

NoPages == [isNone |-> FALSE, isDict |-> TRUE, keys |-> <<>>, items |-> <<>>]

\* 1 for the entry, plus its labels and its cells
SizeOf(c, r) == 1 + c * (1 + r)

RECURSIVE TotalSize(_)
TotalSize(items) ==
    IF items = <<>> THEN 0
    ELSE SizeOf(Len(Head(items).cols), Len(Head(items).rows)) + TotalSize(Tail(items))

\* the two grids of Scenario A
ScenarioA ==
    << [isdf |-> TRUE, cols |-> <<"Visit", "V1", "V2">>, rows |-> << <<"a", "x", "">> >>],
       [isdf |-> TRUE, cols |-> <<"Visit", "V2", "V3">>, rows |-> << <<"b", "", "y">> >>] >>

\* one grid of one row under three labels, its cells "x" or one None-like
\* token or whitespace cell: a row with one such cell in three is kept by the
\* null-heavy row removal
TokenGrids ==
    {[isdf |-> TRUE, cols |-> <<a, b, c>>, rows |-> << <<x, y, z>> >>] :
        a \in Labels, b \in Labels, c \in Labels,
        x \in {"x"} \cup NoneLike \cup {" "},
        y \in {"x"} \cup NoneLike \cup {" "},
        z \in {"x"} \cup NoneLike \cup {" "}}

\* one grid of two rows under one label, its cells spellings of the same
\* text that differ in case or in whitespace around it
VariantGrids ==
    {[isdf |-> TRUE, cols |-> <<"B">>, rows |-> << <<x>>, <<y>> >>] :
        x \in {"A", "a", "A ", "x"}, y \in {"A", "a", "A ", "x"}}

\* ------------------------------------------------------------------------
\* stitch_multipage_tables, step by step
\* ------------------------------------------------------------------------
VARIABLES
    raw,          \* the argument: [isNone, isDict, keys, items]
    pc,           \* the step stitch_multipage_tables has reached
    dfs,          \* the non-empty DataFrames of raw, in order
    master_cols,  \* the super-schema
    aligned,      \* the reindexed DataFrames
    stitched,     \* the working table, and at "done" the returned table
    err,          \* the exception raised, "" when none
    again,        \* at "recleaned": steps 2 to 6 applied to the returned table
    payload,      \* the parsed JSON of one OCR page: [headers, rows]
    page_df,      \* the DataFrame built from payload
    shown,        \* what the analysis blocks of the Streamlit page displayed
    record,       \* the extraction record of upload_pdf in extractions_db
    response,     \* the response of the last API call
    extractions_db \* the records of main.py, in the order they were created

vars == <<raw, pc, dfs, master_cols, aligned, stitched, err, again,
          payload, page_df, shown, record, response, extractions_db>>

\* the variables outside stitch_multipage_tables
sideVars == <<payload, page_df, shown, record, response, extractions_db>>

\* nothing parsed, displayed, stored or answered yet
NoPayload == [headers |-> <<>>, rows |-> <<>>]

NoRecord == [status |-> "none"]

NoResponse == [kind |-> "none"]

SideIdle ==
    /\ payload = NoPayload
    /\ page_df = EmptyFrame
    /\ shown = <<>>
    /\ record = NoRecord
    /\ response = NoResponse
    /\ extractions_db = <<>>

Init ==
    /\ \/ raw = [isNone |-> TRUE, isDict |-> FALSE, keys |-> <<>>, items |-> <<>>]
       \/ raw = ListOf(<<>>)
       \/ raw = NoPages
       \/ raw = ListOf(ScenarioA)
       \/ \E g \in TokenGrids \cup VariantGrids : raw = ListOf(<<g>>)
    /\ pc = "start"
    /\ dfs = <<>>
    /\ master_cols = <<>>
    /\ aligned = <<>>
    /\ stitched = EmptyFrame
    /\ err = ""
    /\ again = EmptyFrame
    /\ SideIdle

\* the caller appends one more entry to the list it will pass as raw: a
\* DataFrame, or something else
Receive ==
    /\ pc = "start"
    /\ ~raw.isNone /\ ~raw.isDict
    /\ \/ /\ TotalSize(raw.items) + SizeOf(0, 0) <= MaxSize
          /\ raw' = [raw EXCEPT !.items = Append(@, NotAFrame)]
       \/ \E c \in 0..MaxSize, r \in 0..MaxSize :
             /\ c = 0 => r = 0
             /\ TotalSize(raw.items) + SizeOf(c, r) <= MaxSize
             /\ \E g \in GridsOf(c, r, CellValues) :
                   raw' = [raw EXCEPT !.items = Append(@, g)]
    /\ UNCHANGED <<pc, dfs, master_cols, aligned, stitched, err, again>>
    /\ UNCHANGED sideVars

\* the page loop of the OCR extraction stores the result of one more page
\* in the mapping it will pass as raw: results[idx] = df or pd.DataFrame()
ReceivePage ==
    /\ pc = "start"
    /\ raw.isDict
    /\ \E idx \in PageKeys \ Range(raw.keys), e \in PageEntries :
          raw' = [raw EXCEPT !.keys = Append(@, idx), !.items = Append(@, e)]
    /\ UNCHANGED <<pc, dfs, master_cols, aligned, stitched, err, again>>
    /\ UNCHANGED sideVars

\* lines 357-369: None, or nothing left after dropping the empties, returns
\* pd.DataFrame()
Collect ==
    /\ pc = "start"
    /\ IF raw.isNone \/ CollectFrames(Entries(raw)) = <<>>
       THEN pc' = "done" /\ dfs' = <<>>
       ELSE pc' = "collected" /\ dfs' = CollectFrames(Entries(raw))
    /\ UNCHANGED <<raw, master_cols, aligned, stitched, err, again>>
    /\ UNCHANGED sideVars

\* lines 374-379
BuildMaster ==
    /\ pc = "collected"
    /\ master_cols' = MasterCols(dfs, Len(dfs))
    /\ pc' = "master"
    /\ UNCHANGED <<raw, dfs, aligned, stitched, err, again>>
    /\ UNCHANGED sideVars

\* lines 381-385
Align ==
    /\ pc = "master"
    /\ IF \E i \in 1..Len(dfs) : reindex_raises(dfs[i], master_cols)
       THEN pc' = "raised" /\ err' = "ValueError" /\ UNCHANGED aligned
       ELSE /\ aligned' = [i \in 1..Len(dfs) |-> reindex(dfs[i], master_cols)]
            /\ pc' = "aligned"
            /\ UNCHANGED err
    /\ UNCHANGED <<raw, dfs, master_cols, stitched, again>>
    /\ UNCHANGED sideVars

\* line 388
Concat ==
    /\ pc = "aligned"
    /\ stitched' = concat(aligned)
    /\ pc' = "concat"
    /\ UNCHANGED <<raw, dfs, master_cols, aligned, err, again>>
    /\ UNCHANGED sideVars

\* line 391
RemoveNullRows ==
    /\ pc = "concat"
    /\ IF remove_rows_with_many_nones_raises(stitched)
       THEN pc' = "raised" /\ err' = "InvalidIndexError" /\ UNCHANGED stitched
       ELSE /\ stitched' = remove_rows_with_many_nones(stitched)
            /\ pc' = "rows_cleaned"
            /\ UNCHANGED err
    /\ UNCHANGED <<raw, dfs, master_cols, aligned, again>>
    /\ UNCHANGED sideVars

\* line 394
RemoveHeaderRows ==
    /\ pc = "rows_cleaned"
    /\ IF remove_repeated_header_rows_raises(stitched)
       THEN pc' = "raised" /\ err' = "InvalidIndexError" /\ UNCHANGED stitched
       ELSE /\ stitched' = remove_repeated_header_rows(stitched)
            /\ pc' = "headers_removed"
            /\ UNCHANGED err
    /\ UNCHANGED <<raw, dfs, master_cols, aligned, again>>
    /\ UNCHANGED sideVars

\* line 399
FillHeader ==
    /\ pc = "headers_removed"
    /\ stitched' = fill_empty_header_with_previous(stitched)
    /\ pc' = "header_filled"
    /\ UNCHANGED <<raw, dfs, master_cols, aligned, err, again>>
    /\ UNCHANGED sideVars

\* line 402
Normalize ==
    /\ pc = "header_filled"
    /\ IF normalize_headers_with_subcolumns_raises(stitched)
       THEN pc' = "raised" /\ err' = "NotImplementedError" /\ UNCHANGED stitched
       ELSE /\ stitched' = normalize_headers_with_subcolumns(stitched)
            /\ pc' = "normalized"
            /\ UNCHANGED err
    /\ UNCHANGED <<raw, dfs, master_cols, aligned, again>>
    /\ UNCHANGED sideVars

\* lines 405-409: the last step and the return
DropEmpty ==
    /\ pc = "normalized"
    /\ stitched' = drop_empty_cols_and_fix_nulls(stitched)
    /\ pc' = "done"
    /\ UNCHANGED <<raw, dfs, master_cols, aligned, err, again>>
    /\ UNCHANGED sideVars

\* steps 2 to 6 (lines 391-405) on a table
CleanRaises(df) ==
    \/ remove_rows_with_many_nones_raises(df)
    \/ remove_repeated_header_rows_raises(remove_rows_with_many_nones(df))
    \/ normalize_headers_with_subcolumns_raises(
           fill_empty_header_with_previous(
               remove_repeated_header_rows(remove_rows_with_many_nones(df))))

Clean(df) ==
    drop_empty_cols_and_fix_nulls(
        normalize_headers_with_subcolumns(
            fill_empty_header_with_previous(
                remove_repeated_header_rows(remove_rows_with_many_nones(df)))))

\* the returned table is cleaned once more
Reclean ==
    /\ pc = "done"
    /\ IF CleanRaises(stitched)
       THEN pc' = "raised" /\ err' = "reclean" /\ UNCHANGED again
       ELSE /\ again' = Clean([stitched EXCEPT !.src = [i \in 1..Len(stitched.rows) |-> i]])
            /\ pc' = "recleaned"
            /\ UNCHANGED err
    /\ UNCHANGED <<raw, dfs, master_cols, aligned, stitched>>
    /\ UNCHANGED sideVars

\* ------------------------------------------------------------------------
\* Analytics: generate_analytics of main.py and the analysis helpers of the
\* Streamlit page. No string of the model holds a line break, so
\* replace("\n", " ") leaves every string as it is.
\* ------------------------------------------------------------------------
\* visit_row_index = 4, period_row_index = 0, start_row = 5
VisitRowIndex == 4

PeriodRowIndex == 0

StartRow == 5

\* df.iloc[i, j], both counted from 0
At(df, i, j) == df.rows[i + 1][j + 1]

NRows(df) == Len(df.rows)

NCols(df) == Len(df.cols)

\* str(x).strip()
Text(v) == Strip(Str(v))

\* row i of df from column 1 on, as stripped strings
RowTexts(df, i) == [j \in 1..(NCols(df) - 1) |-> Text(At(df, i, j))]

\* val not in ["", "nan", "None", "none"]
Present(v) == Text(v) \notin {"", "nan", "None", "none"}

\* v and v not in ["nan", "None", ""]
Named(t) == t \notin {"", "nan", "None"}

\* visit_names of generate_analytics: the blank cells of the visit row are
\* filtered out
FilteredVisitNames(df) ==
    LET cells == RowTexts(df, VisitRowIndex)
    IN Pick(cells, TruePositions([j \in 1..Len(cells) |-> Named(cells[j])], 1))

\* the rows after the visit row, as positions from 0
DataRowIndexes(df) == (VisitRowIndex + 1)..(NRows(df) - 1)

\* count of column col_idx: its cells after the visit row that are present
PresentCount(df, col_idx) ==
    Cardinality({r \in DataRowIndexes(df) : Present(At(df, r, col_idx))})

\* visit_frequency after the columns 1..n: a dict, so a visit name seen
\* again overwrites its count and keeps its place
RECURSIVE VisitFrequency(_, _)
VisitFrequency(df, n) ==
    IF n = 0 THEN <<>>
    ELSE LET d == VisitFrequency(df, n - 1)
             names == FilteredVisitNames(df)
         IN IF n - 1 < Len(names)
            THEN IF \E i \in 1..Len(d) : d[i].visit = names[n]
                 THEN [i \in 1..Len(d) |->
                          IF d[i].visit = names[n]
                          THEN [d[i] EXCEPT !.count = PresentCount(df, n)]
                          ELSE d[i]]
                 ELSE Append(d, [visit |-> names[n], count |-> PresentCount(df, n)])
            ELSE d

\* period_map after the first n cells of period_row
RECURSIVE PeriodMap(_, _)
PeriodMap(df, n) ==
    IF n = 0 THEN <<>>
    ELSE LET d == PeriodMap(df, n - 1)
             names == FilteredVisitNames(df)
             period == RowTexts(df, PeriodRowIndex)[n]
         IN IF n - 1 < Len(names) /\ Named(period)
            THEN IF \E i \in 1..Len(d) : d[i].period = period
                 THEN [i \in 1..Len(d) |->
                          IF d[i].period = period
                          THEN [d[i] EXCEPT !.visits = Append(@, names[n])]
                          ELSE d[i]]
                 ELSE Append(d, [period |-> period, visits |-> <<names[n]>>])
            ELSE d

\* assessments of column col_idx: the names of the rows after the visit row
\* whose cell is present and whose name is not blank
Assessments(df, col_idx) ==
    LET rows == [k \in 1..(NRows(df) - VisitRowIndex - 1) |-> VisitRowIndex + k]
    IN Pick([k \in 1..Len(rows) |-> Text(At(df, rows[k], 0))],
            TruePositions([k \in 1..Len(rows) |->
                              /\ Present(At(df, rows[k], col_idx))
                              /\ Named(Text(At(df, rows[k], 0)))], 1))

\* assessments_by_visit after the columns 1..n
RECURSIVE AssessmentsByVisit(_, _)
AssessmentsByVisit(df, n) ==
    IF n = 0 THEN <<>>
    ELSE LET d == AssessmentsByVisit(df, n - 1)
             names == FilteredVisitNames(df)
         IN IF n - 1 < Len(names) /\ Assessments(df, n) # <<>>
            THEN Append(d, [visit |-> names[n],
                            assessments |-> Assessments(df, n),
                            count |-> Len(Assessments(df, n))])
            ELSE d

\* the keys of MEANING_OVERRIDES
MeaningOverrides == <<"a", "b", "c", "d", "e", "f", "g", "h", "i", "j", "k">>

\* the return value None
NoAnalytics == [isNone |-> TRUE]

\* the dict analytics as it is first built
BlankAnalytics ==
    [visitFrequency |-> <<>>,
     periodAnalysis |-> <<>>,
     assessmentsByVisit |-> <<>>,
     meaningOverrides |-> MeaningOverrides,
     totalVisits |-> 0,
     totalAssessments |-> 0]

generate_analytics(df) ==
    IF IsEmpty(df) THEN NoAnalytics
    ELSE IF NRows(df) > VisitRowIndex
    THEN [visitFrequency |-> VisitFrequency(df, NCols(df) - 1),
          periodAnalysis |-> PeriodMap(df, NCols(df) - 1),
          assessmentsByVisit |-> AssessmentsByVisit(df, NCols(df) - 1),
          meaningOverrides |-> MeaningOverrides,
          totalVisits |-> Len(FilteredVisitNames(df)),
          totalAssessments |-> NRows(df) - VisitRowIndex - 1]
    ELSE BlankAnalytics

\* analyze_period(r0, r1) after the first n pairs of zip(r0, r1)
RECURSIVE analyze_period(_, _, _)
analyze_period(r0, r1, n) ==
    IF n = 0 THEN <<>>
    ELSE LET d == analyze_period(r0, r1, n - 1)
         IN IF \E i \in 1..Len(d) : d[i].period = r0[n]
            THEN [i \in 1..Len(d) |->
                     IF d[i].period = r0[n]
                     THEN [d[i] EXCEPT !.visits = Append(@, r1[n])]
                     ELSE d[i]]
            ELSE Append(d, [period |-> r0[n], visits |-> <<r1[n]>>])

\* mapped_visits of row row_idx: visit_names holds the whole visit row, so
\* column col_idx is named visit_names[col_idx]
MappedVisits(df, row_idx) ==
    LET visit_names == [j \in 1..NCols(df) |-> Text(At(df, VisitRowIndex, j - 1))]
        cols == [j \in 1..(NCols(df) - 1) |-> j]
    IN Pick([j \in 1..Len(cols) |-> visit_names[cols[j] + 1]],
            TruePositions([j \in 1..Len(cols) |-> Present(At(df, row_idx, cols[j]))], 1))

\* analyze_row_filled_columns(df, start_row=5, visit_row=4) after the rows
\* up to row last: a dict, so a row name seen again overwrites its record
RECURSIVE analyze_row_filled_columns(_, _)
analyze_row_filled_columns(df, last) ==
    IF last < StartRow THEN <<>>
    ELSE LET d == analyze_row_filled_columns(df, last - 1)
             row_name == Text(At(df, last, 0))
             rec == [sample |-> row_name,
                     visits |-> MappedVisits(df, last),
                     count |-> Len(MappedVisits(df, last))]
         IN IF \E i \in 1..Len(d) : d[i].sample = row_name
            THEN [i \in 1..Len(d) |-> IF d[i].sample = row_name THEN rec ELSE d[i]]
            ELSE Append(d, rec)

\* cell not in ["", " ", "None", "none", "NaN", "nan"]
Dotted(v) == Text(v) \notin {"", " ", "None", "none", "NaN", "nan"}

\* the keys of res: the visits, each once, in the order of first occurrence
RECURSIVE FirstOccurrences(_, _)
FirstOccurrences(visits, n) ==
    IF n = 0 THEN <<>>
    ELSE LET d == FirstOccurrences(visits, n - 1)
         IN IF visits[n] \in Range(d) THEN d ELSE Append(d, visits[n])

\* res[visit]["rows"] after the rows up to row last: the name of a row is
\* appended once for each of its dotted columns that carry this visit
RECURSIVE DotRows(_, _, _)
DotRows(df, visit, last) ==
    IF last <= VisitRowIndex THEN <<>>
    ELSE LET visits == RowTexts(df, VisitRowIndex)
             hits == Cardinality({j \in 1..Len(visits) :
                                     visits[j] = visit /\ Dotted(At(df, last, j))})
         IN DotRows(df, visit, last - 1) \o [k \in 1..hits |-> Text(At(df, last, 0))]

\* countdots(df, visit_row=4)
countdots(df) ==
    LET keys == FirstOccurrences(RowTexts(df, VisitRowIndex), NCols(df) - 1)
    IN [i \in 1..Len(keys) |->
           [visit |-> keys[i],
            count |-> Len(DotRows(df, keys[i], NRows(df) - 1)),
            rows |-> DotRows(df, keys[i], NRows(df) - 1)]]

\* the three analysis blocks of the page, each in its own try: the block
\* warns when df.iloc[visit_row] raises IndexError, else it shows its table
PeriodBlock(df) ==
    IF NRows(df) <= PeriodRowIndex \/ NRows(df) <= VisitRowIndex
    THEN [block |-> "Period Analysis", failed |-> TRUE]
    ELSE [block |-> "Period Analysis", failed |-> FALSE,
          value |-> analyze_period(RowTexts(df, PeriodRowIndex),
                                   RowTexts(df, VisitRowIndex), NCols(df) - 1)]

SampleBlock(df) ==
    IF NRows(df) <= VisitRowIndex
    THEN [block |-> "Visit Mapping", failed |-> TRUE]
    ELSE [block |-> "Visit Mapping", failed |-> FALSE,
          value |-> analyze_row_filled_columns(df, NRows(df) - 1)]

DotBlock(df) ==
    IF NRows(df) <= VisitRowIndex
    THEN [block |-> "Visit Analysis", failed |-> TRUE]
    ELSE [block |-> "Visit Analysis", failed |-> FALSE, value |-> countdots(df)]

\* ------------------------------------------------------------------------
\* The callers of stitch_multipage_tables: upload_pdf and export_data of
\* main.py, and the Streamlit page
\* ------------------------------------------------------------------------
\* lines 231-233 of main.py
PostProcessRaises(df) == ~IsEmpty(df) /\ normalize_headers_with_subcolumns_raises(df)

PostProcessed(df) ==
    IF IsEmpty(df) THEN df
    ELSE drop_empty_cols_and_fix_nulls(normalize_headers_with_subcolumns(df))

\* a list comes from camelot, a mapping from the OCR extraction
ExtractionMethod(r) == IF r.isDict THEN "ocr" ELSE "camelot"

\* extractedData as the record is created: None
NoData == [isNone |-> TRUE]

\* the record after lines 236-255
CompletedRecord(df, method) ==
    [status |-> "completed",
     extractedData |->
         IF IsEmpty(df) THEN NoData
         ELSE [headers |-> df.cols,
               rows |-> df.rows,
               totalRows |-> Len(df.rows),
               totalColumns |-> Len(df.cols),
               extractionMethod |-> method],
     analyticsData |->
         IF IsEmpty(df) \/ generate_analytics(df) = NoAnalytics THEN NoAnalytics
         ELSE generate_analytics(df),
     errorMessage |-> PyNone]

\* mutant: the except branch sets the status and no message
FailedRecord_without_message(e) ==
    [status |-> "failed",
     extractedData |-> NoData,
     analyticsData |-> NoAnalytics,
     errorMessage |-> PyNone]

\* the record after lines 257-259
FailedRecord(e) ==
    [status |-> "failed",
     extractedData |-> NoData,
     analyticsData |-> NoAnalytics,
     errorMessage |-> e]

\* the record as lines 186-194 create it
ProcessingRecord ==
    [status |-> "processing",
     extractedData |-> NoData,
     analyticsData |-> NoAnalytics,
     errorMessage |-> PyNone]

\* extractions_db[extraction_id] = extraction of line 267: the record of the
\* upload is the last one created; it is new to extractions_db when the
\* behaviour starts after its creation
Stored(db, old, new) ==
    IF old = NoRecord THEN Append(db, new) ELSE [db EXCEPT ![Len(db)] = new]

\* the dict upload_pdf returns
UploadResponse(r) ==
    [kind |-> "upload",
     status |-> r.status,
     message |-> IF r.status = "completed"
                 THEN "PDF uploaded and processed successfully"
                 ELSE "Processing failed"]

\* upload_pdf from the return of stitch_multipage_tables, or from the
\* exception it raised, to its own return; raw_tables is a non-empty list or
\* a mapping
Upload ==
    /\ pc \in {"done", "raised"}
    /\ err # "reclean"
    /\ ~raw.isNone
    /\ raw.isDict \/ raw.items # <<>>
    /\ record' =
          IF pc = "raised" THEN FailedRecord(err)
          ELSE IF PostProcessRaises(stitched) THEN FailedRecord("NotImplementedError")
          ELSE CompletedRecord(PostProcessed(stitched), ExtractionMethod(raw))
    /\ response' = UploadResponse(record')
    /\ extractions_db' = Stored(extractions_db, record, record')
    /\ pc' = "uploaded"
    /\ UNCHANGED <<raw, dfs, master_cols, aligned, stitched, err, again>>
    /\ UNCHANGED <<payload, page_df, shown>>

ExportFormats == {"csv", "excel", "json", "xml"}

\* export_data on the stored record
Export ==
    /\ pc = "uploaded"
    /\ \E format \in ExportFormats :
          response' =
              IF record.extractedData = NoData
              THEN [kind |-> "HTTPException", status_code |-> 400,
                    detail |-> "No data available for export"]
              ELSE IF format \in {"csv", "excel", "json"}
              THEN [kind |-> format, status_code |-> 200,
                    headers |-> record.extractedData.headers,
                    rows |-> record.extractedData.rows]
              ELSE [kind |-> "HTTPException", status_code |-> 400,
                    detail |-> "Invalid format. Use csv, excel, or json"]
    /\ pc' = "exported"
    /\ UNCHANGED <<raw, dfs, master_cols, aligned, stitched, err, again>>
    /\ UNCHANGED <<payload, page_df, shown, record, extractions_db>>

\* the Streamlit page from the return of stitch_multipage_tables to the end
\* of the final display: the two optional steps chosen in the sidebar, then
\* the table and the three analysis blocks, or the error message
Display ==
    /\ pc = "done"
    /\ \E merge_similar_headers, clean_nulls \in BOOLEAN :
          IF merge_similar_headers /\ normalize_headers_with_subcolumns_raises(stitched)
          THEN shown' = <<[block |-> "exception"]>>
          ELSE LET merged == IF merge_similar_headers
                             THEN normalize_headers_with_subcolumns(stitched)
                             ELSE stitched
                   final == IF clean_nulls
                            THEN drop_empty_cols_and_fix_nulls(merged)
                            ELSE merged
               IN IF IsEmpty(final)
                  THEN shown' = <<[block |-> "error",
                                   text |-> "No final table produced."]>>
                  ELSE shown' = <<[block |-> "table", table |-> final],
                                  PeriodBlock(final), SampleBlock(final),
                                  DotBlock(final)>>
    /\ pc' = "displayed"
    /\ UNCHANGED <<raw, dfs, master_cols, aligned, stitched, err, again>>
    /\ UNCHANGED <<payload, page_df, record, response, extractions_db>>

Next ==
    \/ Receive
    \/ ReceivePage
    \/ Collect
    \/ BuildMaster
    \/ Align
    \/ Concat
    \/ RemoveNullRows
    \/ RemoveHeaderRows
    \/ FillHeader
    \/ Normalize
    \/ DropEmpty
    \/ Reclean
    \/ Upload
    \/ Export
    \/ Display

Spec == Init /\ [][Next]_vars

\* ------------------------------------------------------------------------
\* The analytics on the table stitched from one schedule grid
\* ------------------------------------------------------------------------
\* a schedule as camelot extracts it: the labels are the column numbers, row
\* 0 holds the periods, row 4 the visits, the rows between them other header
\* lines, and the rows after row 4 one sample each, most of them at most
ScheduleRows(most) ==
    {<< <<"period", p1, p2>>, <<"f1", "u", "u">>, <<"f2", "u", "u">>,
        <<"f3", "u", "u">>, <<"visit", v1, v2>> >> \o data :
        p1 \in {"p", "q", ""}, p2 \in {"p", "q", ""},
        v1 \in {"v1", "v2", ""}, v2 \in {"v1", "v2", ""},
        data \in UNION {[1..n -> {<<name, c1, c2>> :
                                    name \in {"r1", "r2"},
                                    c1 \in {"x", ""}, c2 \in {"x", ""}}] :
                        n \in 0..most}}

\* the schedules, and their first rows alone: tables that end before the
\* visit row
ScheduleGrids(most) ==
    UNION {{[isdf |-> TRUE, cols |-> <<"0", "1", "2">>, rows |-> SubSeq(rows, 1, n)] :
               n \in 1..Len(rows)} : rows \in ScheduleRows(most)}

\* stitch_multipage_tables has returned the table of a list of one grid
InitAnalytics ==
    /\ \E g \in ScheduleGrids(MaxDataRows) :
          /\ raw = ListOf(<<g>>)
          /\ dfs = <<AsFrame(<<g>>, 1)>>
          /\ master_cols = g.cols
          /\ aligned = <<AsFrame(<<g>>, 1)>>
          /\ ~CleanRaises(AsFrame(<<g>>, 1))
          /\ stitched = Clean(AsFrame(<<g>>, 1))
    /\ pc = "done"
    /\ err = ""
    /\ again = EmptyFrame
    /\ SideIdle

NextAnalytics ==
    \/ Upload
    \/ Export
    \/ Display

SpecAnalytics == InitAnalytics /\ [][NextAnalytics]_vars

\* ------------------------------------------------------------------------
\* Grid normalization of one OCR page (extract_tables_with_mistral_ocr)
\* ------------------------------------------------------------------------
\* " | ".join(h)
RECURSIVE JoinLevels(_)
JoinLevels(h) ==
    IF h = <<>> THEN ""
    ELSE IF Len(h) = 1 THEN h[1]
    ELSE h[1] \o " | " \o JoinLevels(Tail(h))

\* flat_headers: a header that is a list is joined, any other is str(h)
FlatHeaders(headers) ==
    [j \in 1..Len(headers) |->
        IF headers[j].isList THEN JoinLevels(headers[j].levels)
        ELSE headers[j].levels[1]]

\* "" if x is None else str(x)
CellText(x) == IF x = PyNone THEN "" ELSE x

\* mutant: a long row keeps its last cells
NormalizedRow_keeping_tail(row, n) ==
    LET texts == [j \in 1..Len(row) |-> CellText(row[j])]
    IN IF Len(texts) < n THEN texts \o [j \in 1..(n - Len(texts)) |-> ""]
       ELSE IF Len(texts) > n THEN SubSeq(texts, Len(texts) - n + 1, Len(texts))
       ELSE texts

\* one pass of the loop over rows, for flat_headers of length n
NormalizedRow(row, n) ==
    LET texts == [j \in 1..Len(row) |-> CellText(row[j])]
    IN IF Len(texts) < n THEN texts \o [j \in 1..(n - Len(texts)) |-> ""]
       ELSE IF Len(texts) > n THEN SubSeq(texts, 1, n)
       ELSE texts

\* df = pd.DataFrame(normalized_rows, columns=flat_headers)
NormalizedFrame(p) ==
    [cols |-> FlatHeaders(p.headers),
     rows |-> [i \in 1..Len(p.rows) |-> NormalizedRow(p.rows[i], Len(p.headers))],
     src |-> [i \in 1..Len(p.rows) |-> i]]

\* the headers of a payload: plain strings and two-level lists
HeaderItems ==
    {[isList |-> FALSE, levels |-> <<"V1">>],
     [isList |-> TRUE, levels |-> <<"Period", "V2">>]}

HeaderLists == UNION {[1..n -> HeaderItems] : n \in 0..2}

\* the cells of a raw OCR row
OcrCells == {"x", "", PyNone}

\* a row of k cells counts 1 + k in the size of the payload
RECURSIVE PayloadSize(_)
PayloadSize(rows) ==
    IF rows = <<>> THEN 0 ELSE 1 + Len(Head(rows)) + PayloadSize(Tail(rows))

InitOCR ==
    /\ raw = NoPages
    /\ pc = "parsed"
    /\ dfs = <<>>
    /\ master_cols = <<>>
    /\ aligned = <<>>
    /\ stitched = EmptyFrame
    /\ err = ""
    /\ again = EmptyFrame
    /\ \E h \in HeaderLists : payload = [headers |-> h, rows |-> <<>>]
    /\ page_df = EmptyFrame
    /\ shown = <<>>
    /\ record = NoRecord
    /\ response = NoResponse
    /\ extractions_db = <<>>

\* rows = payload.get("rows", []): the parsed JSON holds one more row
ReadRow ==
    /\ pc = "parsed"
    /\ \E k \in 0..MaxSize :
          /\ PayloadSize(payload.rows) + 1 + k <= MaxSize
          /\ \E row \in [1..k -> OcrCells] :
                payload' = [payload EXCEPT !.rows = Append(@, row)]
    /\ UNCHANGED <<raw, pc, dfs, master_cols, aligned, stitched, err, again>>
    /\ UNCHANGED <<page_df, shown, record, response, extractions_db>>

\* lines 169-190
NormalizeGrid ==
    /\ pc = "parsed"
    /\ page_df' = NormalizedFrame(payload)
    /\ pc' = "framed"
    /\ UNCHANGED <<raw, dfs, master_cols, aligned, stitched, err, again>>
    /\ UNCHANGED <<payload, shown, record, response, extractions_db>>

NextOCR ==
    \/ ReadRow
    \/ NormalizeGrid

SpecOCR == InitOCR /\ [][NextOCR]_vars

\* ------------------------------------------------------------------------
\* The header and cleanup helpers called on their own, each on one table
\* ------------------------------------------------------------------------
\* the cells of a first row: a value, a value with a space before it, blanks
\* and null tokens
HeaderCells == {"x", " a", "", " ", "NaN", "None"}

\* tables of three columns whose first row is drawn from HeaderCells, alone
\* or with a second row below it
HeaderGrids ==
    {[isdf |-> TRUE, cols |-> <<"A", "B", "C">>, rows |-> <<h>> \o below] :
        h \in [1..3 -> HeaderCells],
        below \in {<<>>, << <<" a", "", "nan">> >>}}

\* the header row of Scenario C over its visit row
ScenarioC ==
    [isdf |-> TRUE,
     cols |-> <<"0", "1", "2", "3", "4", "5">>,
     rows |-> << <<"Period", "", "", "Maintenance", "", "">>,
                 <<"V1", "V2", "V3", "V4", "V5", "V6">> >>]

\* tables of one row under four labels that are equal, equal but for case,
\* or different; the cell of column j is blank or holds a value of its own
MergeGrids ==
    {[isdf |-> TRUE, cols |-> h, rows |-> << <<c1, c2, c3, c4>> >>] :
        h \in [1..4 -> {"A", "a", "B", "b", "C"}],
        c1 \in {"", "w"}, c2 \in {"", "x"}, c3 \in {"", "y"}, c4 \in {"", "z"}}

\* the injective sequences over a set
Orderings(S) ==
    {h \in [1..Cardinality(S) -> S] : \A i, j \in 1..Cardinality(S) : h[i] = h[j] => i = j}

\* tables of one row under the five labels A, a, B, C, c in any order: a
\* duplicated label may come after an earlier duplicate pair
MergeGridsOfFive ==
    {[isdf |-> TRUE, cols |-> h, rows |-> << <<c1, c2, c3, c4, c5>> >>] :
        h \in Orderings({"A", "a", "B", "C", "c"}),
        c1 \in {"", "v"}, c2 \in {"", "w"}, c3 \in {"", "x"},
        c4 \in {"", "y"}, c5 \in {"", "z"}}

\* the cells of a column that may be dropped: blanks, null tokens, a null
\* token with a space before it, and a value
DropCells == {"", " ", "nan", "NULL", " nan", "x"}

\* tables of two rows under two labels and of one row under three
DropGrids ==
    {[isdf |-> TRUE, cols |-> <<"A", "B">>, rows |-> b] :
        b \in [1..2 -> [1..2 -> DropCells]]}
    \cup {[isdf |-> TRUE, cols |-> <<"A", "B", "C">>, rows |-> <<r>>] :
        r \in [1..3 -> DropCells]}

\* the table a helper is called on is kept in stitched, its return in again
InitHelpers ==
    /\ \E g \in HeaderGrids \cup {ScenarioC} \cup MergeGrids
                  \cup MergeGridsOfFive \cup DropGrids :
          /\ raw = ListOf(<<g>>)
          /\ stitched = AsFrame(<<g>>, 1)
    /\ pc = "given"
    /\ dfs = <<>>
    /\ master_cols = <<>>
    /\ aligned = <<>>
    /\ err = ""
    /\ again = EmptyFrame
    /\ SideIdle

CallFillHeader ==
    /\ pc = "given"
    /\ again' = fill_empty_header_with_previous(stitched)
    /\ pc' = "filled"
    /\ UNCHANGED <<raw, dfs, master_cols, aligned, stitched, err>>
    /\ UNCHANGED sideVars

CallNormalize ==
    /\ pc = "given"
    /\ IF normalize_headers_with_subcolumns_raises(stitched)
       THEN pc' = "raised" /\ err' = "NotImplementedError" /\ UNCHANGED again
       ELSE /\ again' = normalize_headers_with_subcolumns(stitched)
            /\ pc' = "merged"
            /\ UNCHANGED err
    /\ UNCHANGED <<raw, dfs, master_cols, aligned, stitched>>
    /\ UNCHANGED sideVars

CallDropEmpty ==
    /\ pc = "given"
    /\ again' = drop_empty_cols_and_fix_nulls(stitched)
    /\ pc' = "dropped"
    /\ UNCHANGED <<raw, dfs, master_cols, aligned, stitched, err>>
    /\ UNCHANGED sideVars

NextHelpers ==
    \/ CallFillHeader
    \/ CallNormalize
    \/ CallDropEmpty

SpecHelpers == InitHelpers /\ [][NextHelpers]_vars

\* ------------------------------------------------------------------------
\* The records of the API server over several uploads (main.py). A handler
\* runs without an await from the creation of the record to its return, so
\* the other handlers see extractions_db between uploads only.
\* ------------------------------------------------------------------------
\* what the extraction hands to stitch_multipage_tables: the mapping of an
\* OCR pass that found nothing, the two grids of Scenario A, one grid of two
\* columns with a full or a blank row
UploadedTables ==
    {NoPages, ListOf(ScenarioA)}
        \cup {ListOf(<<g>>) : g \in GridsOf(2, 1, {"x"})}
        \cup {ListOf(<<[isdf |-> TRUE, cols |-> <<"A", "B">>, rows |-> << <<"", "">> >>]>>)}

\* no handler is running
BetweenRequests == pc \in {"idle", "uploaded", "exported"}

InitLifecycle ==
    /\ raw = NoPages
    /\ pc = "idle"
    /\ dfs = <<>>
    /\ master_cols = <<>>
    /\ aligned = <<>>
    /\ stitched = EmptyFrame
    /\ err = ""
    /\ again = EmptyFrame
    /\ SideIdle

\* upload_pdf, lines 168-227: the record is created and stored, then the
\* tables are extracted; the extraction returns its tables or raises, and
\* then raw_tables is never bound
BeginUpload ==
    /\ BetweenRequests
    /\ Len(extractions_db) < MaxUploads
    /\ record' = ProcessingRecord
    /\ extractions_db' = Append(extractions_db, ProcessingRecord)
    /\ \/ \E raw_tables \in UploadedTables :
             raw' = raw_tables /\ pc' = "start" /\ err' = ""
       \/ raw' = NoPages /\ pc' = "raised" /\ err' = "ExtractionError"
    /\ dfs' = <<>>
    /\ master_cols' = <<>>
    /\ aligned' = <<>>
    /\ stitched' = EmptyFrame
    /\ UNCHANGED <<again, payload, page_df, shown, response>>

\* upload_pdf, lines 170-171: a file that is no PDF gets no record
RejectUpload ==
    /\ BetweenRequests
    /\ response' = [kind |-> "HTTPException", status_code |-> 400,
                    detail |-> "Only PDF files are supported"]
    /\ UNCHANGED <<raw, pc, dfs, master_cols, aligned, stitched, err, again>>
    /\ UNCHANGED <<payload, page_df, shown, record, extractions_db>>

\* len([e for e in all_extractions if e["status"] == status])
CountStatus(db, status) == Cardinality({i \in 1..Len(db) : db[i].status = status})

\* the counts get_dashboard returns
Dashboard(db) ==
    [kind |-> "dashboard",
     totalExtractions |-> Len(db),
     successfulExtractions |-> CountStatus(db, "completed"),
     failedExtractions |-> CountStatus(db, "failed"),
     processingExtractions |-> CountStatus(db, "processing")]

GetDashboard ==
    /\ BetweenRequests
    /\ response' = Dashboard(extractions_db)
    /\ UNCHANGED <<raw, pc, dfs, master_cols, aligned, stitched, err, again>>
    /\ UNCHANGED <<payload, page_df, shown, record, extractions_db>>

NextLifecycle ==
    \/ BeginUpload
    \/ RejectUpload
    \/ Collect
    \/ BuildMaster
    \/ Align
    \/ Concat
    \/ RemoveNullRows
    \/ RemoveHeaderRows
    \/ FillHeader
    \/ Normalize
    \/ DropEmpty
    \/ Upload
    \/ Export
    \/ GetDashboard

SpecLifecycle == InitLifecycle /\ [][NextLifecycle]_vars

\* ------------------------------------------------------------------------
\* Properties
\* ------------------------------------------------------------------------
\* stitch_multipage_tables has returned stitched; its callers may have gone on
Returned ==
    \/ pc \in {"done", "recleaned", "displayed"}
    \/ pc \in {"uploaded", "exported"} /\ err = ""

\* the labels of the grids of raw
InputLabels == UNION {Range(raw.items[k].cols) : k \in 1..Len(raw.items)}

\* a cell that is a null-like token ("", none, null, nan, in any case) once
\* trimmed
IsBlank(v) == IsHeaderBlank(Strip(Str(v)))

\* C1: the rows of the returned table are in the order of the concatenation
\* of the input grids: a row that comes before another one in the
\* concatenation comes before it in the returned table
C1_OrderPreserved ==
    Returned =>
        \A i, j \in 1..Len(stitched.src) :
            i < j => stitched.src[i] < stitched.src[j]

C1_Witness ==
    /\ pc = "done"
    /\ Len(stitched.rows) >= 2
    /\ Len(dfs) = 2

\* C2: every non-blank cell of an input grid whose row and column are both
\* still in the returned table is there with the same string, at its row and
\* in the column whose label equals its own ignoring case
C2_LosslessAlignment ==
    Returned =>
        \A k \in 1..Len(dfs) : \A r \in 1..Len(dfs[k].rows) : \A j \in 1..Len(dfs[k].cols) :
            \A i \in 1..Len(stitched.rows) : \A m \in 1..Len(stitched.cols) :
                (/\ ~IsBlank(dfs[k].rows[r][j])
                 /\ stitched.src[i] = dfs[k].src[r]
                 /\ Norm(stitched.cols[m]) = Norm(dfs[k].cols[j]))
                => stitched.rows[i][m] = dfs[k].rows[r][j]

C4_Idempotent ==
    /\ pc = "recleaned" => again.cols = stitched.cols /\ again.rows = stitched.rows
    /\ err # "reclean"

\* no cell of df is one of "None", "none", "null", "NULL", "NaN", "nan"
NoNoneLikeCell(df) ==
    \A r \in 1..Len(df.rows) : \A j \in 1..Len(df.rows[r]) : df.rows[r][j] \notin NoneLike

\* C5: no cell of the table returned by drop_empty_cols_and_fix_nulls, be it
\* called as the last step of the stitching or on a grid of raw, and so no
\* cell of the table stitch_multipage_tables returns, is a None-like token
C5_NullClosure ==
    /\ Returned => NoNoneLikeCell(stitched)
    /\ pc = "recleaned" => NoNoneLikeCell(again)
    /\ \A k \in 1..Len(raw.items) :
          NoNoneLikeCell(drop_empty_cols_and_fix_nulls(AsFrame(raw.items, k)))

\* a returned table with a row that had a None-like cell in its grid
C5_Witness ==
    /\ pc = "done"
    /\ \E i \in 1..Len(stitched.rows) : \E k \in 1..Len(dfs) : \E r \in 1..Len(dfs[k].rows) :
          /\ dfs[k].src[r] = stitched.src[i]
          /\ Range(dfs[k].rows[r]) \cap NoneLike # {}
          /\ Len(stitched.rows[i]) > 0

\* C6: None, no grid, only empty grids, or every row removed by the row
\* cleaning (remove_rows_with_many_nones keeps no row, or the removal of the
\* repeated header rows leaves none): the returned table has no row and no
\* later step raises
C6_EmptyInputNoError ==
    /\ (pc # "start" /\ (raw.isNone \/ CollectFrames(Entries(raw)) = <<>>)) =>
          Returned /\ err = "" /\ Len(stitched.rows) = 0
    /\ (aligned # <<>> /\ pc # "aligned" /\ KeptRows(concat(aligned)) = <<>>) =>
          /\ pc # "raised" /\ err = ""
          /\ Len(stitched.rows) = 0 \/ pc = "concat"
    /\ (pc = "raised" /\ err = "NotImplementedError") => Len(stitched.rows) > 0

\* the rows of two grids with different labels were all removed
C6_Witness ==
    /\ pc = "done"
    /\ Len(dfs) = 2
    /\ ~Unique(HeaderValues([cols |-> master_cols]))
    /\ Len(stitched.rows) = 0

\* C7: an aligned grid has the columns of the super-schema, in its order, as
\* many rows as its input grid, and each cell of the input grid unchanged in
\* the column of its label
C7_AlignmentGuarantee ==
    aligned # <<>> =>
        /\ Len(aligned) = Len(dfs)
        /\ \A i \in 1..Len(dfs) :
              /\ aligned[i].cols = master_cols
              /\ Len(aligned[i].rows) = Len(dfs[i].rows)
              /\ \A r \in 1..Len(dfs[i].rows) :
                    /\ Len(aligned[i].rows[r]) = Len(master_cols)
                    /\ \A j \in 1..Len(dfs[i].cols) :
                          \E k \in 1..Len(master_cols) :
                              /\ master_cols[k] = dfs[i].cols[j]
                              /\ aligned[i].rows[r][k] = dfs[i].rows[r][j]

C7_Witness ==
    /\ pc = "aligned"
    /\ Len(dfs) = 2
    /\ dfs[2].cols # master_cols
    /\ dfs[1].cols # master_cols

\* the ordered union of labels with case-insensitive deduplication
RECURSIVE CaseInsensitiveUnion(_)
CaseInsensitiveUnion(labels) ==
    IF labels = <<>> THEN <<>>
    ELSE LET n == Len(labels)
             before == CaseInsensitiveUnion(SubSeq(labels, 1, n - 1))
         IN IF \E k \in 1..Len(before) : Lower(before[k]) = Lower(labels[n])
            THEN before
            ELSE Append(before, labels[n])

RECURSIVE AllLabels(_, _)
AllLabels(frames, n) ==
    IF n = 0 THEN <<>> ELSE AllLabels(frames, n - 1) \o frames[n].cols

\* C8: the super-schema is the union of the labels of the grids in the order
\* of their first occurrence, with no two labels equal ignoring case and the
\* first-seen casing kept
C8_SuperSchemaCaseInsensitive ==
    pc \notin {"start", "collected"} /\ dfs # <<>> =>
        master_cols = CaseInsensitiveUnion(AllLabels(dfs, Len(dfs)))

\* the columns of the super-schema that grid i lacks
MissingCols(i) == {k \in 1..Len(master_cols) : master_cols[k] \notin Range(dfs[i].cols)}

\* C9 as stated: a column that a grid lacks holds "" in every row of the
\* aligned grid
C9_MissingColumnsHoldEmptyString ==
    aligned # <<>> =>
        \A i \in 1..Len(aligned) : \A k \in MissingCols(i) :
            \A r \in 1..Len(aligned[i].rows) : aligned[i].rows[r][k] = ""

\* C9 as amended: a column that a grid lacks holds the missing value NaN in
\* every row of the aligned grid, which reads "nan" as a string
C9_MissingColumnsHoldNaN ==
    aligned # <<>> =>
        \A i \in 1..Len(aligned) : \A k \in MissingCols(i) :
            \A r \in 1..Len(aligned[i].rows) :
                aligned[i].rows[r][k] = NaN /\ Str(aligned[i].rows[r][k]) = "nan"

C9_Witness ==
    /\ pc = "aligned"
    /\ \E i \in 1..Len(aligned) : MissingCols(i) # {} /\ Len(aligned[i].rows) > 0

\* C10 as stated: Scenario A aligned and concatenated
C10_ScenarioA ==
    (raw.items = ScenarioA /\ pc = "concat") =>
        /\ stitched.cols = <<"Visit", "V1", "V2", "V3">>
        /\ stitched.rows = << <<"a", "x", "", "">>, <<"b", "", "y", "">> >>

\* C10 as amended: each value stays under its own label and the cells of the
\* columns a grid lacks are the missing value
C10_ScenarioAByLabel ==
    (raw.items = ScenarioA /\ pc = "concat") =>
        /\ stitched.cols = <<"Visit", "V1", "V2", "V3">>
        /\ stitched.rows = << <<"a", "x", "", NaN>>, <<"b", NaN, "", "y">> >>

C10_Witness == raw.items = ScenarioA /\ pc = "concat"

\* the positions in a mapping of the values that are grids and not empty
UsablePages ==
    {i \in 1..Len(raw.items) :
        /\ raw.items[i].isdf
        /\ Len(raw.items[i].cols) > 0
        /\ Len(raw.items[i].rows) > 0}

\* C11: given a mapping from page index to grid, the grids that are
\* processed are exactly the values that are non-empty grids, each once, in
\* ascending order of their page index, whatever the insertion order
C11_KeyedInputOrder ==
    (raw.isDict /\ pc # "start") =>
        /\ Len(dfs) = Cardinality(UsablePages)
        /\ \E f \in [1..Len(dfs) -> UsablePages] :
              /\ \A a, b \in 1..Len(dfs) :
                    a < b => raw.keys[f[a]] < raw.keys[f[b]]
              /\ \A a \in 1..Len(dfs) :
                    /\ dfs[a].cols = raw.items[f[a]].cols
                    /\ dfs[a].rows = raw.items[f[a]].rows

\* two grids inserted in descending page order, and a page that is skipped
C11_Witness ==
    /\ raw.isDict
    /\ pc = "collected"
    /\ Len(dfs) = 2
    /\ dfs[1].cols # dfs[2].cols
    /\ \E i, j \in UsablePages : i < j /\ raw.keys[i] > raw.keys[j]
    /\ \E i \in 1..Len(raw.items) : i \notin UsablePages

\* C12: the DataFrame built from a raw OCR table has one row per raw row,
\* each with as many cells as the flattened header; the cells a raw row has
\* within that width are kept in place with their text (a JSON null reads
\* ""), the cells beyond it are cut, and a short row is filled up with ""
C12_GridNormalization ==
    pc = "framed" =>
        /\ Len(page_df.cols) = Len(payload.headers)
        /\ Len(page_df.rows) = Len(payload.rows)
        /\ \A i \in 1..Len(payload.rows) :
              /\ Len(page_df.rows[i]) = Len(page_df.cols)
              /\ \A j \in 1..Len(page_df.cols) :
                    page_df.rows[i][j] =
                        IF j > Len(payload.rows[i]) THEN ""
                        ELSE IF payload.rows[i][j] = PyNone THEN ""
                        ELSE payload.rows[i][j]

\* a table with a short row and a long row
C12_Witness ==
    /\ pc = "framed"
    /\ Len(page_df.cols) = 2
    /\ \E i \in 1..Len(payload.rows) :
          Len(payload.rows[i]) < 2 /\ page_df.rows[i][2] = ""
    /\ \E i \in 1..Len(payload.rows) :
          /\ Len(payload.rows[i]) > 2
          /\ payload.rows[i][1] = "x"
          /\ payload.rows[i][3] # "x"

\* the aggregations of generate_analytics, all computed from the visit row
VisitAggregations == {"visitFrequency", "periodAnalysis", "assessmentsByVisit"}

\* the answer of generate_analytics reports the failure of an aggregation
\* when it holds no list of results for it
FailureReported(a, agg) == agg \notin DOMAIN a

\* C13: an aggregation reports a failure exactly when a row it needs is out
\* of the bounds of the table, and the others are still returned. For
\* generate_analytics: the answer is not None, and an aggregation is
\* reported as failed exactly when the visit row is out of bounds. For the
\* page: the period block fails exactly when the period or the visit row is
\* out of bounds, the sample block when the visit row or the start row is,
\* the visit block when the visit row is
C13_IndependentFailures ==
    /\ (pc = "uploaded" /\ record.status = "completed"
            /\ record.extractedData # NoData) =>
          /\ record.analyticsData # NoAnalytics
          /\ \A agg \in VisitAggregations :
                FailureReported(record.analyticsData, agg)
                    <=> (Len(record.extractedData.rows) <= VisitRowIndex)
    /\ (pc = "displayed" /\ shown[1].block = "table") =>
          LET n == NRows(shown[1].table)
          IN /\ shown[2].failed <=> (n <= PeriodRowIndex \/ n <= VisitRowIndex)
             /\ shown[3].failed <=> (n <= VisitRowIndex \/ n <= StartRow)
             /\ shown[4].failed <=> (n <= VisitRowIndex)

\* what upload_pdf returns for a successful extraction with data
SuccessResponse == UploadResponse([status |-> "completed"])

\* C14: an empty Cleaned Table is a distinct outcome and not a crash: the
\* record stored by upload_pdf holds no data and what upload_pdf returns
\* differs from what it returns for an extraction with data; export_data on
\* that record answers with an error response; the page shows its error
\* message
C14_EmptyTableDistinctOutcome ==
    /\ (pc = "uploaded" /\ err = "" /\ IsEmpty(stitched)) =>
          /\ record.status = "completed"
          /\ record.extractedData = NoData
          /\ response # SuccessResponse
    /\ (pc = "exported" /\ err = "" /\ IsEmpty(stitched)) =>
          /\ response.kind = "HTTPException"
          /\ response.status_code = 400
    /\ (pc = "displayed" /\ IsEmpty(stitched)) =>
          shown = <<[block |-> "error", text |-> "No final table produced."]>>

\* a cell that reads "", "none", "null" or "nan" whatever its case
NullLikeIgnoringCase(v) == Lower(Str(v)) \in {"", "none", "null", "nan"}

\* the fraction of such cells in a row reaches the threshold
NullHeavy(row) ==
    Cardinality({j \in 1..Len(row) : NullLikeIgnoringCase(row[j])}) * ThresholdDen
        >= ThresholdNum * Len(row)

\* C15: remove_rows_with_many_nones drops a row exactly when the fraction of
\* its cells that read "", "none", "null" or "nan" (in any case) is at least
\* 0.5, each row on its own; so a row of only empty strings is dropped, and
\* the rows that stay keep their order and their cells
C15_NullHeavyRowsDropped ==
    pc = "rows_cleaned" =>
        LET input == concat(aligned)
            kept == TruePositions([i \in 1..Len(input.rows) |->
                                      ~NullHeavy(input.rows[i])], 1)
        IN /\ stitched.src = Pick(input.src, kept)
           /\ stitched.rows = Pick(input.rows, kept)

\* C16: remove_repeated_header_rows removes a row exactly when its trimmed
\* lower-cased cells equal the trimmed lower-cased labels position by
\* position, or when an earlier row that stays has the same cells exactly;
\* the first of equal rows stays
C16_HeaderAndDuplicateRowsRemoved ==
    pc = "headers_removed" =>
        LET input == remove_rows_with_many_nones(concat(aligned))
            IsHeader(i) == Normalized(input).rows[i] = HeaderValues(input)
            stays == TruePositions(
                [i \in 1..Len(input.rows) |->
                    /\ ~IsHeader(i)
                    /\ \A k \in 1..(i - 1) : input.rows[k] # input.rows[i]], 1)
        IN stitched.src = Pick(input.src, stays)

\* the cell of row at the last position before j that is not null-like, ""
\* when there is none
NearestNonNull(row, j) ==
    LET before == {k \in 1..(j - 1) : ~NullLikeIgnoringCase(row[k])}
    IN IF before = {} THEN ""
       ELSE row[CHOOSE k \in before : \A o \in before : o <= k]

\* C17 as stated: fill_empty_header_with_previous replaces every cell of row
\* 0 that is a null-like token with the nearest non-null value to its left
\* in row 0, or with "" when there is none, and leaves the other cells of
\* row 0, the other rows and the labels as they are; so the header row of
\* Scenario C becomes Period, Period, Period, Maintenance, Maintenance,
\* Maintenance
C17_HeaderBlankRepair ==
    pc = "filled" =>
        /\ again.cols = stitched.cols
        /\ Len(again.rows) = Len(stitched.rows)
        /\ \A i \in 2..Len(stitched.rows) : again.rows[i] = stitched.rows[i]
        /\ \A j \in 1..Len(stitched.cols) :
              again.rows[1][j] =
                  IF NullLikeIgnoringCase(stitched.rows[1][j])
                  THEN NearestNonNull(stitched.rows[1], j)
                  ELSE stitched.rows[1][j]
        /\ raw.items[1] = ScenarioC =>
              again.rows[1] = <<"Period", "Period", "Period",
                                "Maintenance", "Maintenance", "Maintenance">>

\* a cell that is a null-like token once the whitespace around it is cut
BlankWhenTrimmed(v) == NullLikeIgnoringCase(Strip(Str(v)))

\* the trimmed cell of row at the last position before j that is not blank
\* when trimmed, "" when there is none
NearestTrimmed(row, j) ==
    LET before == {k \in 1..(j - 1) : ~BlankWhenTrimmed(row[k])}
    IN IF before = {} THEN ""
       ELSE Strip(Str(row[CHOOSE k \in before : \A o \in before : o <= k]))

\* C17 as amended: fill_empty_header_with_previous trims every cell of row
\* 0; a cell that is then a null-like token takes the nearest trimmed value
\* to its left that is none, or "" when there is none. The other rows and
\* the labels stay as they are, and the header row of Scenario C becomes
\* Period, Period, Period, Maintenance, Maintenance, Maintenance
C17_HeaderBlankRepairTrimmed ==
    pc = "filled" =>
        /\ again.cols = stitched.cols
        /\ Len(again.rows) = Len(stitched.rows)
        /\ \A i \in 2..Len(stitched.rows) : again.rows[i] = stitched.rows[i]
        /\ \A j \in 1..Len(stitched.cols) :
              again.rows[1][j] =
                  IF BlankWhenTrimmed(stitched.rows[1][j])
                  THEN NearestTrimmed(stitched.rows[1], j)
                  ELSE Strip(Str(stitched.rows[1][j]))
        /\ raw.items[1] = ScenarioC =>
              again.rows[1] = <<"Period", "Period", "Period",
                                "Maintenance", "Maintenance", "Maintenance">>

\* a first row with a value, another value and a blank after them, over a
\* second row
C17_Witness ==
    /\ pc = "filled"
    /\ Len(stitched.rows) = 2
    /\ stitched.rows[1] = <<"x", " a", "None">>
    /\ again.rows[1] = <<"x", "a", "a">>

\* the trimmed label of column j, ignoring case
LabelKey(df, j) == Lower(Strip(df.cols[j]))

\* the columns whose label no earlier column has, in order
FirstOfLabel(df) ==
    TruePositions([j \in 1..Len(df.cols) |->
                      \A i \in 1..(j - 1) : LabelKey(df, i) # LabelKey(df, j)], 1)

\* the value of the columns of row that share the label of column j, merged
\* from left to right: the earliest value that is not blank, and the value
\* of the last of them when all are blank
MergedValue(df, row, j) ==
    LET group == {k \in 1..Len(df.cols) : LabelKey(df, k) = LabelKey(df, j)}
        filled == {k \in group : Strip(Str(row[k])) # ""}
        least(S) == CHOOSE k \in S : \A o \in S : k <= o
        greatest(S) == CHOOSE k \in S : \A o \in S : o <= k
    IN IF group = {j} THEN row[j]
       ELSE IF filled # {} THEN Str(row[least(filled)])
       ELSE Str(row[greatest(group)])

\* C18: normalize_headers_with_subcolumns keeps, of the columns that share a
\* trimmed label ignoring case, the first and removes the later ones, and in
\* every row the kept column holds its own value unless that is blank, and
\* then the value of the later column; this for every group of duplicates
\* of the table
C18_DuplicateColumnMerge ==
    pc = "merged" =>
        LET firsts == FirstOfLabel(stitched)
        IN /\ again.cols = [k \in 1..Len(firsts) |-> Strip(stitched.cols[firsts[k]])]
           /\ Len(again.rows) = Len(stitched.rows)
           /\ \A r \in 1..Len(stitched.rows) :
                 again.rows[r] =
                     [k \in 1..Len(firsts) |->
                         MergedValue(stitched, stitched.rows[r], firsts[k])]

\* a cell that is blank or whitespace-only once the null tokens are replaced
\* by ""
BlankOrNullToken(v) == v \in NoneLike \/ Strip(Str(v)) = ""

\* the columns with at least one cell that is not
SurvivingCols(df) ==
    TruePositions([j \in 1..Len(df.cols) |->
                      \E r \in 1..Len(df.rows) : ~BlankOrNullToken(df.rows[r][j])], 1)

RepeatsHeader(df, i) ==
    [j \in 1..Len(df.rows[i]) |-> Norm(df.rows[i][j])]
        = [j \in 1..Len(df.cols) |-> Norm(df.cols[j])]

\* C20: the table stitch_multipage_tables returns holds no row that repeats
\* the final header, also after the later steps merged or dropped columns
C20_NoHeaderRowReturned ==
    (pc = "done" /\ Len(stitched.cols) > 0) =>
        \A i \in 1..Len(stitched.rows) : ~RepeatsHeader(stitched, i)

\* the table upload_pdf stored, as a DataFrame
Extracted ==
    [cols |-> record.extractedData.headers,
     rows |-> record.extractedData.rows,
     src |-> <<>>]

\* the data columns of df, counted from 0
DataCols(df) == 1..(NCols(df) - 1)

\* the cleaned value of the visit row at column c
VisitOf(df, c) == Text(At(df, VisitRowIndex, c))

\* the data columns whose visit name is not blank and stands in no other
\* data column
OwnName(df, c) ==
    /\ Named(VisitOf(df, c))
    /\ \A o \in DataCols(df) : VisitOf(df, o) = VisitOf(df, c) => o = c

\* C21: every aggregation names data column c by the cleaned value of the
\* visit row at column c, also when cells of the visit row are blank. For a
\* column whose visit name stands in no other column: visitFrequency holds
\* the count of that column under that name, assessmentsByVisit its row
\* labels, countdots its dotted rows; and analyze_row_filled_columns lists
\* for a row the names of its present columns
C21_VisitNameByPosition ==
    /\ (pc = "uploaded" /\ record.status = "completed"
            /\ record.extractedData # NoData /\ NRows(Extracted) > VisitRowIndex) =>
          \A c \in DataCols(Extracted) : OwnName(Extracted, c) =>
              /\ \E i \in 1..Len(record.analyticsData.visitFrequency) :
                    record.analyticsData.visitFrequency[i]
                        = [visit |-> VisitOf(Extracted, c),
                           count |-> PresentCount(Extracted, c)]
              /\ Assessments(Extracted, c) # <<>> =>
                    \E i \in 1..Len(record.analyticsData.assessmentsByVisit) :
                        /\ record.analyticsData.assessmentsByVisit[i].visit
                               = VisitOf(Extracted, c)
                        /\ record.analyticsData.assessmentsByVisit[i].assessments
                               = Assessments(Extracted, c)
    /\ (pc = "displayed" /\ shown[1].block = "table"
            /\ NRows(shown[1].table) > VisitRowIndex) =>
          LET df == shown[1].table
          IN /\ \A c \in DataCols(df) : OwnName(df, c) =>
                   \E i \in 1..Len(shown[4].value) :
                       /\ shown[4].value[i].visit = VisitOf(df, c)
                       /\ shown[4].value[i].count
                              = Cardinality({r \in DataRowIndexes(df) : Dotted(At(df, r, c))})
             /\ \A r \in StartRow..(NRows(df) - 1) :
                   (\A o \in StartRow..(NRows(df) - 1) :
                        Text(At(df, o, 0)) = Text(At(df, r, 0)) => o = r) =>
                       \E i \in 1..Len(shown[3].value) :
                           /\ shown[3].value[i].sample = Text(At(df, r, 0))
                           /\ \A c \in DataCols(df) :
                                 Present(At(df, r, c)) =>
                                     VisitOf(df, c) \in Range(shown[3].value[i].visits)

\* the cleaned value of the period row at column c
PeriodOf(df, c) == Text(At(df, PeriodRowIndex, c))

\* the periods and the visits of the data columns paired position by
\* position: one group for each period in the order of first occurrence,
\* its visits in the order of their columns
GroupedByPosition(df) ==
    LET periods == RowTexts(df, PeriodRowIndex)
        visits == RowTexts(df, VisitRowIndex)
        firsts == TruePositions([j \in 1..Len(periods) |->
                                    \A i \in 1..(j - 1) : periods[i] # periods[j]], 1)
    IN [k \in 1..Len(firsts) |->
           [period |-> periods[firsts[k]],
            visits |-> Pick(visits,
                            TruePositions([j \in 1..Len(periods) |->
                                              periods[j] = periods[firsts[k]]], 1))]]

\* C22: the periods and the visits of columns 1 to the end are paired
\* position by position and each visit is put in the group of the period at
\* its own position, the groups in the order their periods are first seen
\* and the visits of a group in column order. On the page the groups are
\* exactly these; in periodAnalysis of generate_analytics every visit of a
\* group stands in a column of that period, and every column with a period
\* and a visit has its visit in the group of its period. The header row of
\* Scenario C with the visits V1 to V6 gives Period: V1, V2, V3 and
\* Maintenance: V4, V5, V6
C22_PeriodVisitGrouping ==
    /\ (pc = "displayed" /\ shown[1].block = "table"
            /\ NRows(shown[1].table) > VisitRowIndex) =>
          /\ shown[2].value = GroupedByPosition(shown[1].table)
          /\ analyze_period(<<"Period", "Period", "Period",
                              "Maintenance", "Maintenance", "Maintenance">>,
                            <<"V1", "V2", "V3", "V4", "V5", "V6">>, 6)
                = << [period |-> "Period", visits |-> <<"V1", "V2", "V3">>],
                     [period |-> "Maintenance", visits |-> <<"V4", "V5", "V6">>] >>
    /\ (pc = "uploaded" /\ record.status = "completed"
            /\ record.extractedData # NoData /\ NRows(Extracted) > VisitRowIndex) =>
          LET groups == record.analyticsData.periodAnalysis
          IN /\ \A i \in 1..Len(groups) : \A k \in 1..Len(groups[i].visits) :
                   \E c \in DataCols(Extracted) :
                       /\ PeriodOf(Extracted, c) = groups[i].period
                       /\ VisitOf(Extracted, c) = groups[i].visits[k]
             /\ \A c \in DataCols(Extracted) :
                   (Named(PeriodOf(Extracted, c)) /\ Named(VisitOf(Extracted, c))) =>
                       \E i \in 1..Len(groups) :
                           /\ groups[i].period = PeriodOf(Extracted, c)
                           /\ VisitOf(Extracted, c) \in Range(groups[i].visits)

\* the visit names, in column order, of the data columns where the trimmed
\* cell of row r is neither empty nor a null-like token
PresentVisits(df, r) ==
    LET cols == [c \in 1..(NCols(df) - 1) |-> c]
    IN Pick([c \in 1..Len(cols) |-> VisitOf(df, c)],
            TruePositions([c \in 1..Len(cols) |->
                              ~NullLikeIgnoringCase(Text(At(df, r, c)))], 1))

\* C23: for every data row from start_row on, the result of
\* analyze_row_filled_columns holds a record under the label of that row
\* whose visits are the visit names, in column order, of the columns where
\* the row is present, and whose count is their number; also when two data
\* rows have the same label
C23_RowPresenceMapping ==
    (pc = "displayed" /\ shown[1].block = "table"
        /\ NRows(shown[1].table) > VisitRowIndex) =>
        LET df == shown[1].table
        IN \A r \in StartRow..(NRows(df) - 1) :
               \E i \in 1..Len(shown[3].value) :
                   shown[3].value[i] =
                       [sample |-> Text(At(df, r, 0)),
                        visits |-> PresentVisits(df, r),
                        count |-> Len(PresentVisits(df, r))]

\* the label of row r
LabelOf(df, r) == Text(At(df, r, 0))

\* the data rows have labels of their own, and so have the data columns
DistinctLabelsAndVisits(df) ==
    /\ \A r, o \in DataRowIndexes(df) : LabelOf(df, r) = LabelOf(df, o) => r = o
    /\ \A c, o \in DataCols(df) : VisitOf(df, c) = VisitOf(df, o) => c = o

\* a per-visit result lists the label under the visit
ListedUnderVisit(byVisit, visit, label) ==
    \E i \in 1..Len(byVisit) :
        byVisit[i].visit = visit /\ label \in Range(byVisit[i].rows)

\* C24: for a table whose row labels and whose visit names are distinct,
\* countdots lists the label of data row r under the visit of data column c
\* exactly when analyze_row_filled_columns lists that visit under that
\* label, and exactly when assessmentsByVisit of generate_analytics lists
\* that label under that visit
C24_PerVisitSymmetry ==
    /\ (pc = "displayed" /\ shown[1].block = "table"
            /\ NRows(shown[1].table) > VisitRowIndex
            /\ DistinctLabelsAndVisits(shown[1].table)) =>
          LET df == shown[1].table
          IN \A r \in DataRowIndexes(df) : \A c \in DataCols(df) :
                 ListedUnderVisit(shown[4].value, VisitOf(df, c), LabelOf(df, r))
                     <=> \E i \in 1..Len(shown[3].value) :
                             /\ shown[3].value[i].sample = LabelOf(df, r)
                             /\ VisitOf(df, c) \in Range(shown[3].value[i].visits)
    /\ (pc = "uploaded" /\ record.status = "completed"
            /\ record.extractedData # NoData
            /\ NRows(Extracted) > VisitRowIndex
            /\ DistinctLabelsAndVisits(Extracted)) =>
          \A r \in DataRowIndexes(Extracted) : \A c \in DataCols(Extracted) :
              ListedUnderVisit(countdots(Extracted),
                               VisitOf(Extracted, c), LabelOf(Extracted, r))
                  <=> \E i \in 1..Len(record.analyticsData.assessmentsByVisit) :
                          /\ record.analyticsData.assessmentsByVisit[i].visit
                                 = VisitOf(Extracted, c)
                          /\ LabelOf(Extracted, r)
                                 \in Range(record.analyticsData.assessmentsByVisit[i].assessments)

\* C25: remove_repeated_header_rows only removes rows: every row it keeps
\* holds in every column the cell of the input table, with its case and its
\* whitespace
C25_KeptRowsUnchanged ==
    pc = "headers_removed" =>
        LET input == remove_rows_with_many_nones(concat(aligned))
        IN /\ stitched.cols = input.cols
           /\ \A i \in 1..Len(stitched.rows) :
                 \E k \in 1..Len(input.rows) :
                     /\ input.src[k] = stitched.src[i]
                     /\ input.rows[k] = stitched.rows[i]

\* C26: a row whose cells in its own grid are all non-null and non-blank is
\* not removed by the null-heavy row removal of stitch_multipage_tables,
\* however many columns of the super-schema its grid lacks
C26_FullRowsSurvive ==
    pc = "rows_cleaned" =>
        \A i \in 1..Len(dfs) : \A r \in 1..Len(dfs[i].rows) :
            (\A j \in 1..Len(dfs[i].cols) : ~BlankWhenTrimmed(dfs[i].rows[r][j])) =>
                dfs[i].src[r] \in Range(stitched.src)

\* C27: normalize_headers_with_subcolumns changes no surviving column
\* because of a column of a different label: a cell of an output column
\* differs from the cell of the first input column with that label only
\* where that cell was blank, and then it holds the value of a later column
\* with the same trimmed label ignoring case; this for any order of the
\* columns, also A, a, B, C, c
C27_NoForeignMerge ==
    pc = "merged" =>
        LET firsts == FirstOfLabel(stitched)
        IN /\ Len(again.cols) = Len(firsts)
           /\ \A k \in 1..Len(firsts) : \A r \in 1..Len(stitched.rows) :
                 again.rows[r][k] # stitched.rows[r][firsts[k]] =>
                     /\ Strip(Str(stitched.rows[r][firsts[k]])) = ""
                     /\ \E j \in (firsts[k] + 1)..Len(stitched.cols) :
                           /\ LabelKey(stitched, j) = LabelKey(stitched, firsts[k])
                           /\ again.rows[r][k] = Str(stitched.rows[r][j])

\* the record of an upload is as complete as its status says: an error
\* message exactly when it failed, data only when it completed
RecordConsistent(r) ==
    /\ r.status \in {"processing", "completed", "failed"}
    /\ r.errorMessage # PyNone <=> r.status = "failed"
    /\ r.extractedData # NoData => r.status = "completed"

\* once upload_pdf has returned, no record is left in "processing"
LifecycleInvariant ==
    /\ \A i \in 1..Len(extractions_db) : RecordConsistent(extractions_db[i])
    /\ BetweenRequests =>
          \A i \in 1..Len(extractions_db) :
              extractions_db[i].status \in {"completed", "failed"}
    /\ response.kind = "dashboard" =>
          response.totalExtractions =
              response.successfulExtractions + response.failedExtractions
                  + response.processingExtractions

\* a record is created in "processing", and one that is completed or failed
\* stays as it is
LifecycleStep ==
    /\ Len(extractions_db') >= Len(extractions_db)
    /\ \A i \in 1..Len(extractions_db) :
          extractions_db[i].status \in {"completed", "failed"} =>
              extractions_db'[i] = extractions_db[i]
    /\ \A i \in (Len(extractions_db) + 1)..Len(extractions_db') :
          extractions_db'[i].status = "processing"

\* C28: upload_pdf creates each record with the status "processing" and
\* leaves it "completed" or "failed" before it returns, on every path; a
\* record never leaves "completed" or "failed"; errorMessage is set exactly
\* when the status is "failed", extractedData only when it is "completed";
\* and get_dashboard reports totalExtractions = successfulExtractions +
\* failedExtractions + processingExtractions
C28_RecordLifecycle ==
    [][LifecycleInvariant /\ LifecycleInvariant' /\ LifecycleStep]_vars

\* a completed record with data and a failed one side by side, counted by
\* get_dashboard
C28_Witness ==
    /\ Len(extractions_db) = 2
    /\ extractions_db[1].status = "failed"
    /\ extractions_db[2].status = "completed"
    /\ extractions_db[2].extractedData # NoData
    /\ response.kind = "dashboard"
    /\ response.totalExtractions = 2
    /\ response.failedExtractions = 1

====
